---------------------------- MODULE Spec2Model ----------------------------
(***************************************************************************)
(* A model of the CSV -> JSON conversion pipeline of src/src/App.jsx:      *)
(* parseCSV, detectDelimiterByStructure, unmarshallDeep, coerceDeep and    *)
(* convertRowsToObjects.                                                   *)
(*                                                                         *)
(* A JavaScript string is a sequence of one-character strings, so the      *)
(* empty string is << >>.  A row is a sequence of fields, a table a        *)
(* sequence of rows.                                                       *)
(***************************************************************************)
EXTENDS Integers, Sequences, FiniteSets, TLC

VARIABLES
  pc,         \* position of the running function: "scan", "done", ...
  text,       \* parseCSV: the text argument
  delimiter,  \* parseCSV: the delimiter argument
  i,          \* parseCSV: 1-based index of the next character to read
  field,      \* parseCSV: the field being accumulated
  row,        \* parseCSV: the row being accumulated
  rows,       \* parseCSV: the rows completed so far
  inQuotes,   \* parseCSV: inside a quoted span
  sample,     \* detectDelimiterByStructure: the sample argument
  best,       \* detectDelimiterByStructure: the delimiter returned
  table,      \* the table the sample was written from (<< >>: a raw sample)
  tableDelim, \* the delimiter the table was written with
  quoteAll,   \* whether the writer quoted every field, or only those that need it
  input,      \* unmarshallDeep, coerceDeep, inferScalar: the first argument
  calls,      \* the functions called so far, each on the result of the one before
  returned,   \* the values they returned
  parseNestedJSON, \* convertRowsToObjects: option, parse cells that look like JSON
  doUnmarshall,    \* convertRowsToObjects: option, unmarshall parsed cells
  doInferTypes,    \* convertRowsToObjects: option, infer the types of scalars
  objects,         \* convertRowsToObjects: the records returned
  csv,             \* App: the text of the input area
  autoDelim,       \* App: the auto-detect check box
  json,            \* App: the text of the output area
  status,          \* App: the status line
  userDelimiter    \* history: the delimiter the user chose last, "," at the start

vars == <<pc, text, delimiter, i, field, row, rows, inQuotes,
          sample, best, table, tableDelim, quoteAll, input, calls, returned,
          parseNestedJSON, doUnmarshall, doInferTypes, objects,
          csv, autoDelim, json, status, userDelimiter>>

detectVars == <<sample, best, table, tableDelim, quoteAll>>

valueVars == <<input, calls, returned>>

convertVars == <<parseNestedJSON, doUnmarshall, doInferTypes, objects>>

appVars == <<csv, autoDelim, json, status, userDelimiter>>

\* The value of a variable the running function does not use.
Unused == "unused"

ParseUnused ==
  /\ text = Unused /\ delimiter = Unused /\ i = Unused /\ field = Unused
  /\ row = Unused /\ rows = Unused /\ inQuotes = Unused

DetectUnused ==
  /\ sample = Unused /\ best = Unused
  /\ table = Unused /\ tableDelim = Unused /\ quoteAll = Unused

ValueUnused == input = Unused /\ calls = Unused /\ returned = Unused

ConvertUnused ==
  /\ parseNestedJSON = Unused /\ doUnmarshall = Unused
  /\ doInferTypes = Unused /\ objects = Unused

AppUnused ==
  /\ csv = Unused /\ autoDelim = Unused /\ json = Unused
  /\ status = Unused /\ userDelimiter = Unused

parseVars == <<text, delimiter, i, field, row, rows, inQuotes>>

QUOTE == "\""
LF == "\n"
CR == "\r"
TAB == "\t"

\* text[i + 1] past the end of a string is undefined, which equals no character.
undefined == "undefined"

(***************************************************************************)
(* Bounds of the model.                                                    *)
(***************************************************************************)
MaxTextLen == 5
MaxSampleLen == 4
MaxTailLen == 4
MaxDataRows == 1
MaxStrLen == 4
MaxCalls == 2
MaxHeaderLen == 2
MaxRowLen == 3
MaxRecords == 2

\* All strings over `alphabet` of length at most n.
Strings(alphabet, n) == UNION {[1..k -> alphabet] : k \in 0..n}

(***************************************************************************)
(* parseCSV (App.jsx 6-50).                                                *)
(***************************************************************************)
ParseInit == [i |-> 1, field |-> <<>>, row |-> <<>>, rows |-> <<>>, inQuotes |-> FALSE]

\* One iteration of the for loop, the i++ of the loop header included.
ParseCharSwapped(s, txt, d) ==
  LET char == txt[s.i]
      next == IF s.i + 1 <= Len(txt) THEN txt[s.i + 1] ELSE undefined
  IN  IF char = d
        THEN [s EXCEPT !.row = Append(@, s.field), !.field = <<>>, !.i = @ + 1]
      ELSE IF s.inQuotes
        THEN IF char = QUOTE /\ next = QUOTE
               THEN [s EXCEPT !.field = Append(@, QUOTE), !.i = @ + 2]
             ELSE IF char = QUOTE
               THEN [s EXCEPT !.inQuotes = FALSE, !.i = @ + 1]
             ELSE [s EXCEPT !.field = Append(@, char), !.i = @ + 1]
      ELSE IF char = QUOTE
        THEN [s EXCEPT !.inQuotes = TRUE, !.i = @ + 1]
      ELSE IF char = LF
        THEN [s EXCEPT !.rows = Append(@, Append(s.row, s.field)),
                       !.row = <<>>, !.field = <<>>, !.i = @ + 1]
      ELSE IF char = CR
        THEN [s EXCEPT !.i = @ + 1]
      ELSE [s EXCEPT !.field = Append(@, char), !.i = @ + 1]

ParseChar(s, txt, d) ==
  LET char == txt[s.i]
      next == IF s.i + 1 <= Len(txt) THEN txt[s.i + 1] ELSE undefined
  IN  IF s.inQuotes
        THEN IF char = QUOTE /\ next = QUOTE
               THEN [s EXCEPT !.field = Append(@, QUOTE), !.i = @ + 2]
             ELSE IF char = QUOTE
               THEN [s EXCEPT !.inQuotes = FALSE, !.i = @ + 1]
             ELSE [s EXCEPT !.field = Append(@, char), !.i = @ + 1]
      ELSE IF char = QUOTE
        THEN [s EXCEPT !.inQuotes = TRUE, !.i = @ + 1]
      ELSE IF char = d
        THEN [s EXCEPT !.row = Append(@, s.field), !.field = <<>>, !.i = @ + 1]
      ELSE IF char = LF
        THEN [s EXCEPT !.rows = Append(@, Append(s.row, s.field)),
                       !.row = <<>>, !.field = <<>>, !.i = @ + 1]
      ELSE IF char = CR
        THEN [s EXCEPT !.i = @ + 1]
      ELSE [s EXCEPT !.field = Append(@, char), !.i = @ + 1]

\* The flush after the loop: "push last field / row if any".
ParseFlushAlways(s) == Append(s.rows, Append(s.row, s.field))

ParseFlush(s) ==
  IF s.field # <<>> \/ s.inQuotes \/ Len(s.row) > 0
    THEN Append(s.rows, Append(s.row, s.field))
    ELSE s.rows

RECURSIVE ParseLoop(_, _, _)
ParseLoop(s, txt, d) ==
  IF s.i > Len(txt) THEN ParseFlush(s) ELSE ParseLoop(ParseChar(s, txt, d), txt, d)

parseCSV(txt, d) == ParseLoop(ParseInit, txt, d)

(***************************************************************************)
(* parseCSV as a state machine: one step per loop iteration, then the      *)
(* flush.                                                                  *)
(***************************************************************************)
ParseAlphabet == {QUOTE, ",", ";", LF, CR, "a"}
ParseDelimiters == {",", ";"}

ParserState == [i |-> i, field |-> field, row |-> row, rows |-> rows, inQuotes |-> inQuotes]

InitParse ==
  /\ pc = "scan"
  /\ text \in Strings(ParseAlphabet, MaxTextLen)
  /\ delimiter \in ParseDelimiters
  /\ i = ParseInit.i
  /\ field = ParseInit.field
  /\ row = ParseInit.row
  /\ rows = ParseInit.rows
  /\ inQuotes = ParseInit.inQuotes
  /\ DetectUnused
  /\ ValueUnused
  /\ ConvertUnused
  /\ AppUnused

ScanChar ==
  /\ pc = "scan"
  /\ i <= Len(text)
  /\ LET s == ParseChar(ParserState, text, delimiter)
     IN  /\ i' = s.i
         /\ field' = s.field
         /\ row' = s.row
         /\ rows' = s.rows
         /\ inQuotes' = s.inQuotes
  /\ UNCHANGED <<pc, text, delimiter>>
  /\ UNCHANGED <<detectVars, valueVars, convertVars, appVars>>

Finish ==
  /\ pc = "scan"
  /\ i > Len(text)
  /\ rows' = ParseFlush(ParserState)
  /\ pc' = "done"
  /\ UNCHANGED <<text, delimiter, i, field, row, inQuotes>>
  /\ UNCHANGED <<detectVars, valueVars, convertVars, appVars>>

NextParse == ScanChar \/ Finish

SpecParse == InitParse /\ [][NextParse]_vars

(***************************************************************************)
(* Claims about parseCSV.                                                  *)
(***************************************************************************)
RECURSIVE CollapseQuotes(_)
\* The content of a quoted span whose quotes are all doubled: each "" read as ".
CollapseQuotes(body) ==
  IF body = <<>> THEN <<>>
  ELSE IF body[1] = QUOTE
    THEN <<QUOTE>> \o CollapseQuotes(SubSeq(body, 3, Len(body)))
    ELSE <<body[1]>> \o CollapseQuotes(Tail(body))

RECURSIVE QuotesDoubled(_)
\* Every quote of `body` is one half of a doubled quote.
QuotesDoubled(body) ==
  IF body = <<>> THEN TRUE
  ELSE IF body[1] = QUOTE
    THEN Len(body) >= 2 /\ body[2] = QUOTE /\ QuotesDoubled(SubSeq(body, 3, Len(body)))
    ELSE QuotesDoubled(Tail(body))

\* The step taken from a state inside a quoted span.
C1_SpanStep ==
  (pc = "scan" /\ i <= Len(text) /\ inQuotes) =>
    LET doubled == text[i] = QUOTE /\ i + 1 <= Len(text) /\ text[i + 1] = QUOTE
    IN  /\ rows' = rows
        /\ row' = row
        /\ (text[i] # QUOTE =>
              field' = Append(field, text[i]) /\ inQuotes' /\ i' = i + 1)
        /\ (doubled =>
              field' = Append(field, QUOTE) /\ inQuotes' /\ i' = i + 2)
        /\ (text[i] = QUOTE /\ ~doubled =>
              field' = field /\ ~inQuotes' /\ i' = i + 1)

\* A text that is one quoted span with content parses to one row of one field, the
\* span's content.  (The text "" alone has no content and gives no row at all.)
C1_WholeSpan ==
  (pc = "done" /\ Len(text) >= 3 /\ text[1] = QUOTE /\ text[Len(text)] = QUOTE
     /\ QuotesDoubled(SubSeq(text, 2, Len(text) - 1)))
    => rows = << <<CollapseQuotes(SubSeq(text, 2, Len(text) - 1))>> >>

\* C1: inside a quoted span no character ends a field or a row: a delimiter, LF
\* or CR between the opening quote and the closing lone quote is appended to the
\* current field as it is, and a doubled quote adds exactly one quote character to
\* the field and leaves the span open.
C1_QuotedSpanIsLiteral == [][C1_SpanStep]_vars /\ []C1_WholeSpan

\* A span holding the delimiter, a line feed and a doubled quote became one field.
C1_Witness ==
  /\ pc = "done"
  /\ delimiter = ","
  /\ text = <<QUOTE, ",", LF, QUOTE, QUOTE>>
  /\ rows = << << <<",", LF, QUOTE>> >> >>

RECURSIVE CountChar(_, _)
CountChar(s, c) ==
  IF s = <<>> THEN 0 ELSE (IF s[1] = c THEN 1 ELSE 0) + CountChar(Tail(s), c)

RECURSIVE ReplaceCRLF(_)
\* The text with every CR LF pair replaced by LF.
ReplaceCRLF(s) ==
  IF s = <<>> THEN <<>>
  ELSE IF Len(s) >= 2 /\ s[1] = CR /\ s[2] = LF
    THEN <<LF>> \o ReplaceCRLF(SubSeq(s, 3, Len(s)))
    ELSE <<s[1]>> \o ReplaceCRLF(Tail(s))

\* Lines all terminated: no quote, at least one character, the last one a line feed.
TerminatedLines(s) ==
  /\ CountChar(s, QUOTE) = 0
  /\ Len(s) >= 1
  /\ s[Len(s)] = LF

\* C2: a quote-free text of k >= 1 lines, each terminated by LF or CR LF, parses
\* to exactly k rows, no field holds a CR, and the rows are those of the same text
\* with every CR LF replaced by LF.
C2_TerminatedLines ==
  (pc = "done" /\ TerminatedLines(text)) =>
    /\ Len(rows) = CountChar(text, LF)
    /\ \A r \in 1..Len(rows) : \A c \in 1..Len(rows[r]) : CountChar(rows[r][c], CR) = 0
    /\ rows = parseCSV(ReplaceCRLF(text), delimiter)

\* Two lines, the first ended by CR LF, the second by LF: two rows.
C2_Witness ==
  /\ pc = "done"
  /\ delimiter = ","
  /\ text = <<"a", CR, LF, ",", LF>>
  /\ rows = << << <<"a">> >>, << <<>>, <<>> >> >>

(***************************************************************************)
(* detectDelimiterByStructure (App.jsx 55-78).                             *)
(*                                                                         *)
(* The score is a JavaScript double; the model keeps it as the exact       *)
(* fraction num / den with den = (number of rows)^2, so that no rounding   *)
(* is modelled.                                                            *)
(***************************************************************************)
CANDIDATES == <<",", TAB, ";", "|", ":">>

\* slice(0, 20): the number of lines of the sample that are read.
SampleLines == 20

\* The white space String.prototype.trim removes, among the characters modelled.
WhiteSpace == {" ", TAB, LF, CR}

RECURSIVE TrimStart(_)
TrimStart(s) == IF s # <<>> /\ s[1] \in WhiteSpace THEN TrimStart(Tail(s)) ELSE s

RECURSIVE TrimEnd(_)
TrimEnd(s) ==
  IF s # <<>> /\ s[Len(s)] \in WhiteSpace THEN TrimEnd(SubSeq(s, 1, Len(s) - 1)) ELSE s

Trim(s) == TrimEnd(TrimStart(s))

RECURSIVE Join(_, _)
\* Array.prototype.join: the strings of `parts` with `sep` between them.
Join(parts, sep) ==
  IF parts = <<>> THEN <<>>
  ELSE IF Len(parts) = 1 THEN parts[1]
  ELSE parts[1] \o sep \o Join(Tail(parts), sep)

RECURSIVE SplitLinesFrom(_, _, _)
\* split(/\r?\n/) from position k on, `cur` being the line read so far: a line ends
\* at each LF, and a CR right before that LF belongs to the separator.
SplitLinesFrom(s, k, cur) ==
  IF k > Len(s) THEN <<cur>>
  ELSE IF s[k] = LF
    THEN <<IF cur # <<>> /\ cur[Len(cur)] = CR THEN SubSeq(cur, 1, Len(cur) - 1) ELSE cur>>
         \o SplitLinesFrom(s, k + 1, <<>>)
    ELSE SplitLinesFrom(s, k + 1, Append(cur, s[k]))

SplitLines(s) == SplitLinesFrom(s, 1, <<>>)

\* sample.split(/\r?\n/).slice(0, 20).join("\n")
SampleTextWhole(smp) == Join(SplitLines(smp), <<LF>>)

SampleText(smp) ==
  LET lines == SplitLines(smp)
  IN  Join(SubSeq(lines, 1, IF Len(lines) < SampleLines THEN Len(lines) ELSE SampleLines),
           <<LF>>)

RECURSIVE SumSeq(_)
SumSeq(q) == IF q = <<>> THEN 0 ELSE q[1] + SumSeq(Tail(q))

\* r.some(c => (c ?? "").trim() !== "")
RowNonEmpty(r) == \E c \in 1..Len(r) : Trim(r[c]) # <<>>

\* lens[0]
HeaderCols(rws) == Len(rws[1])

\* The number of non-empty data rows as long as the header row.
Matching(rws) ==
  Len(SelectSeq(SelectSeq(Tail(rws), RowNonEmpty), LAMBDA r : Len(r) = HeaderCols(rws)))

\* matching * 100 - variance * 10 - (uniqueLens - 1) * 5, over the denominator n^2:
\* variance = sum((c - mean)^2) / n = (n * sum(c^2) - sum(c)^2) / n^2.
Score(rws) ==
  LET lens == [k \in 1..Len(rws) |-> Len(rws[k])]
      n == Len(lens)
      uniqueLens == Cardinality({lens[k] : k \in 1..n})
      sum == SumSeq(lens)
      sumSq == SumSeq([k \in 1..n |-> lens[k] * lens[k]])
  IN  [num |-> Matching(rws) * 100 * n * n - (n * sumSq - sum * sum) * 10
                 - (uniqueLens - 1) * 5 * n * n,
       den |-> n * n]

\* -Infinity, the first bestScore
NegInfinity == [num |-> -1, den |-> 0]

\* score > bestScore
ScoreGreaterOrEqual(a, b) == b = NegInfinity \/ a.num * b.den >= b.num * a.den

ScoreGreater(a, b) == b = NegInfinity \/ a.num * b.den > b.num * a.den

RECURSIVE DetectLoopNoHeaderCheck(_, _, _, _)
DetectLoopNoHeaderCheck(k, txt, bst, bestScore) ==
  IF k > Len(CANDIDATES) THEN bst
  ELSE LET d == CANDIDATES[k]
           rws == parseCSV(txt, d)
       IN  IF Len(rws) < 2 THEN DetectLoopNoHeaderCheck(k + 1, txt, bst, bestScore)
           ELSE IF ScoreGreater(Score(rws), bestScore)
             THEN DetectLoopNoHeaderCheck(k + 1, txt, d, Score(rws))
             ELSE DetectLoopNoHeaderCheck(k + 1, txt, bst, bestScore)

RECURSIVE DetectLoop(_, _, _, _)
\* The loop over CANDIDATES from index k on, with the best candidate so far.
DetectLoop(k, txt, bst, bestScore) ==
  IF k > Len(CANDIDATES) THEN bst
  ELSE LET d == CANDIDATES[k]
           rws == parseCSV(txt, d)
       IN  IF Len(rws) < 2 THEN DetectLoop(k + 1, txt, bst, bestScore)
           ELSE IF HeaderCols(rws) > 1 /\ ScoreGreater(Score(rws), bestScore)
             THEN DetectLoop(k + 1, txt, d, Score(rws))
             ELSE DetectLoop(k + 1, txt, bst, bestScore)

detectDelimiterByStructure(smp) == DetectLoop(1, SampleText(smp), ",", NegInfinity)

(***************************************************************************)
(* The samples detection is run on: raw texts, texts longer than the 20    *)
(* lines that are read, and tables written out as delimited text.          *)
(***************************************************************************)
Range(q) == {q[k] : k \in 1..Len(q)}

Repeat(c, n) == [k \in 1..n |-> c]

RawSamples ==
  Strings({",", ";", LF, CR, QUOTE, "a", " "}, MaxSampleLen)
    \cup Strings({TAB, "|", ":", LF, "a"}, MaxSampleLen)

\* A header line, 18 line feeds, and a tail that starts on line 19.
LongSamples ==
  {h \o Repeat(LF, SampleLines - 2) \o t :
     h \in Strings({",", ";", "a"}, 2), t \in Strings({",", ";", LF, "a"}, MaxTailLen)}

SpecialChars == Range(CANDIDATES) \cup {QUOTE, LF, CR}

NeedsQuotes(f) == \E k \in 1..Len(f) : f[k] \in SpecialChars

RECURSIVE DoubleQuotes(_)
DoubleQuotes(f) ==
  IF f = <<>> THEN <<>>
  ELSE (IF f[1] = QUOTE THEN <<QUOTE, QUOTE>> ELSE <<f[1]>>) \o DoubleQuotes(Tail(f))

\* A field as a writer puts it: in quotes, inner quotes doubled, when it holds a
\* candidate delimiter, a quote or a line break (or always, when `all`).
WriteField(f, all) ==
  IF all \/ NeedsQuotes(f) THEN <<QUOTE>> \o DoubleQuotes(f) \o <<QUOTE>> ELSE f

\* The table as text: fields joined by d, rows joined by LF.
WriteTable(t, d, all) ==
  Join([r \in 1..Len(t) |->
          Join([c \in 1..Len(t[r]) |-> WriteField(t[r][c], all)], <<d>>)],
       <<LF>>)

\* Header fields: empty, every candidate and a quote, and 18 or 19 line feeds.
HeaderChoices ==
  {<<>>, <<",", TAB, ";", "|", ":", QUOTE>>,
   Repeat(LF, SampleLines - 2), Repeat(LF, SampleLines - 1)}

DataChoices == {<<>>, <<"a", ",", QUOTE, CR, LF>>}

TableCols == {2, 3}

\* Rectangular tables: a header row and 1..MaxDataRows data rows of 2 or 3 columns.
Tables ==
  UNION {{<<h>> \o data :
            h \in [1..c -> HeaderChoices],
            data \in UNION {[1..k -> [1..c -> DataChoices]] : k \in 1..MaxDataRows}} :
         c \in TableCols}

InitDetect ==
  /\ pc = "detect"
  /\ \/ /\ sample \in RawSamples \cup LongSamples
        /\ table = <<>> /\ tableDelim = Unused /\ quoteAll = FALSE
     \/ /\ table \in Tables
        /\ tableDelim \in Range(CANDIDATES)
        /\ quoteAll \in BOOLEAN
        /\ sample = WriteTable(table, tableDelim, quoteAll)
  /\ best = Unused
  /\ ParseUnused
  /\ ValueUnused
  /\ ConvertUnused
  /\ AppUnused

\* One call of detectDelimiterByStructure(sample).
Detect ==
  /\ pc = "detect"
  /\ text' = SampleText(sample)
  /\ best' = detectDelimiterByStructure(sample)
  /\ pc' = "detected"
  /\ UNCHANGED <<delimiter, i, field, row, rows, inQuotes>>
  /\ UNCHANGED <<sample, table, tableDelim, quoteAll>>
  /\ UNCHANGED <<valueVars, convertVars, appVars>>

NextDetect == Detect

SpecDetect == InitDetect /\ [][NextDetect]_vars

(***************************************************************************)
(* Claims about detectDelimiterByStructure.                                *)
(***************************************************************************)
\* Candidate k qualifies on txt: at least 2 rows and more than 1 header column.
Qualifies(k, txt) ==
  LET rws == parseCSV(txt, CANDIDATES[k]) IN Len(rws) >= 2 /\ Len(rws[1]) > 1

ScoreOf(k, txt) == Score(parseCSV(txt, CANDIDATES[k]))

ScoreLess(a, b) == a.num * b.den < b.num * a.den

\* C3: the result is one of the five candidates: comma when no candidate
\* qualifies on the first 20 lines, and otherwise the qualifying candidate of
\* strictly highest score, the earliest one in the order comma, tab, semicolon,
\* pipe, colon among those of equal highest score.
C3_BestCandidate ==
  pc = "detected" =>
    LET txt == SampleText(sample)
        Q == {k \in 1..Len(CANDIDATES) : Qualifies(k, txt)}
    IN  /\ best \in {",", TAB, ";", "|", ":"}
        /\ Q = {} => best = ","
        /\ Q # {} =>
             \E k \in Q :
               /\ best = CANDIDATES[k]
               /\ \A j \in Q : j < k => ScoreLess(ScoreOf(j, txt), ScoreOf(k, txt))
               /\ \A j \in Q : j > k => ~ScoreLess(ScoreOf(k, txt), ScoreOf(j, txt))

\* Comma and semicolon both qualify; the semicolon, later in the order, scores
\* strictly higher and is returned.
C3_Witness ==
  /\ pc = "detected"
  /\ sample = <<",", ";", LF, ";">>
  /\ best = ";"

\* Comma and semicolon qualify with equal scores: the earlier one is returned.
C3_WitnessTie ==
  /\ pc = "detected"
  /\ sample = <<",", ";", LF, "a">>
  /\ best = ","

\* The line feeds of the header row's fields: the header row ends on line 1 + that.
HeaderLineFeeds(t) == SumSeq([c \in 1..Len(t[1]) |-> CountChar(t[1][c], LF)])

\* C4 as stated: detection returns the delimiter of any written table.
C4_Original == (pc = "detected" /\ table # <<>>) => best = tableDelim

\* C4, amended: for a rectangular table of a header row, at least one data row
\* and at least two columns, written with candidate delimiter d and LF between
\* rows, fields with a candidate delimiter, a quote or a line break in quotes, and
\* whose header row ends within the first 19 lines of the text (its fields hold at
\* most 18 line feeds), detection returns d.
C4_RecoversDelimiter ==
  (pc = "detected" /\ table # <<>> /\ HeaderLineFeeds(table) <= SampleLines - 2)
    => best = tableDelim

\* A table written with the pipe, a header field of 18 line feeds and another
\* holding every candidate: the pipe is detected.
C4_Witness ==
  /\ pc = "detected"
  /\ table # <<>>
  /\ tableDelim = "|"
  /\ table[1] = <<Repeat(LF, SampleLines - 2), <<",", TAB, ";", "|", ":", QUOTE>> >>
  /\ ~quoteAll
  /\ best = "|"

(***************************************************************************)
(* JavaScript values.                                                      *)
(*                                                                         *)
(* A value is a record [t, v]: t its type and v its content.  A finite     *)
(* number is kept as the decimal (-1)^neg * m * 10^e with m not divisible  *)
(* by 10 (m = 0, e = 0 for zero): two numerals of at most 5 significant    *)
(* digits denote the same double exactly when they have the same m and e.  *)
(* An object is the sequence of its own properties [k, v] in property      *)
(* order.                                                                  *)
(***************************************************************************)
Null == [t |-> "null", v |-> <<>>]
Bool(b) == [t |-> "bool", v |-> b]
Str(s) == [t |-> "str", v |-> s]
Arr(q) == [t |-> "arr", v |-> q]
Obj(entries) == [t |-> "obj", v |-> entries]
NumV(n) == [t |-> "num", v |-> n]

NaN == <<"nan", FALSE, 0, 0>>
Infinity(neg) == <<"inf", neg, 0, 0>>

RECURSIVE Fin(_, _, _)
\* The finite number (-1)^neg * m * 10^e, m >= 0, in normal form.
Fin(neg, m, e) ==
  IF m = 0 THEN <<"fin", neg, 0, 0>>
  ELSE IF m % 10 = 0 THEN Fin(neg, m \div 10, e + 1)
  ELSE <<"fin", neg, m, e>>

Digits == <<"0", "1", "2", "3", "4", "5", "6", "7", "8", "9">>
IsDigit(c) == c \in Range(Digits)
DigitVal(c) == (CHOOSE k \in 1..10 : Digits[k] = c) - 1

RECURSIVE DigitsValue(_)
\* The number a string of digits denotes.
DigitsValue(ds) ==
  IF ds = <<>> THEN 0
  ELSE DigitsValue(SubSeq(ds, 1, Len(ds) - 1)) * 10 + DigitVal(ds[Len(ds)])

RECURSIVE IntToDigits(_)
\* The decimal digits of n >= 0.
IntToDigits(n) ==
  IF n < 10 THEN <<Digits[n + 1]>> ELSE IntToDigits(n \div 10) \o <<Digits[(n % 10) + 1]>>

RECURSIVE Pow10(_)
Pow10(n) == IF n = 0 THEN 1 ELSE 10 * Pow10(n - 1)

RECURSIVE DigitRun(_, _)
\* The number of digits of s from position k on, up to the first non-digit.
DigitRun(s, k) == IF k <= Len(s) /\ IsDigit(s[k]) THEN 1 + DigitRun(s, k + 1) ELSE 0

\* The double nearest to m * 10^e (m > 0), for m of at most 5 digits: Infinity
\* from 1.7976931348623158e308 on, 0 below the smallest denormal (whose rounding
\* is not modelled further).
RoundToDouble(neg, m, e) ==
  LET nd == Len(IntToDigits(m))
      order == nd + e
      lead == IF nd <= 5 THEN m * Pow10(5 - nd) ELSE m \div Pow10(nd - 5)
  IN  IF order > 309 \/ (order = 309 /\ lead >= 17977) THEN Infinity(neg)
      ELSE IF order < -323 THEN Fin(neg, 0, 0)
      ELSE Fin(neg, m, e)

\* StringToNumber (ECMA-262 7.1.4.1) on sign-free text: a StrUnsignedDecimalLiteral
\* or NaN.  Hexadecimal, octal and binary literals are not modelled.
UnsignedToNumber(u, neg) ==
  IF u = <<"I", "n", "f", "i", "n", "i", "t", "y">> THEN Infinity(neg)
  ELSE
    LET ni == DigitRun(u, 1)
        dot == ni + 1 <= Len(u) /\ u[ni + 1] = "."
        nf == IF dot THEN DigitRun(u, ni + 2) ELSE 0
        p == ni + (IF dot THEN 1 + nf ELSE 0) + 1       \* the position after the mantissa
        hasExp == p <= Len(u) /\ u[p] \in {"e", "E"}
        signed == hasExp /\ p + 1 <= Len(u) /\ u[p + 1] \in {"+", "-"}
        q == p + 1 + (IF signed THEN 1 ELSE 0)          \* the first exponent digit
        ne == IF hasExp THEN DigitRun(u, q) ELSE 0
        stop == IF hasExp THEN q + ne ELSE p
        mant == DigitsValue(SubSeq(u, 1, ni) \o (IF dot THEN SubSeq(u, ni + 2, ni + 1 + nf) ELSE <<>>))
        ex == IF hasExp
                THEN (IF signed /\ u[p + 1] = "-" THEN -1 ELSE 1) * DigitsValue(SubSeq(u, q, q + ne - 1))
                ELSE 0
    IN  IF ni + nf = 0 \/ (hasExp /\ ne = 0) \/ stop # Len(u) + 1 THEN NaN
        ELSE IF mant = 0 THEN Fin(neg, 0, 0)
        ELSE RoundToDouble(neg, mant, ex - nf)

\* Number(s) of a string s.
StringToNumber(s) ==
  LET t == Trim(s)
  IN  IF t = <<>> THEN Fin(FALSE, 0, 0)
      ELSE IF t[1] \in {"+", "-"} THEN UnsignedToNumber(Tail(t), t[1] = "-")
      ELSE UnsignedToNumber(t, FALSE)

\* Number::toString (ECMA-262 6.1.6.1.20), radix 10.
NumberToString(n) ==
  IF n[1] = "nan" THEN <<"N", "a", "N">>
  ELSE IF n[1] = "inf"
    THEN (IF n[2] THEN <<"-">> ELSE <<>>) \o <<"I", "n", "f", "i", "n", "i", "t", "y">>
  ELSE IF n[3] = 0 THEN <<"0">>
  ELSE
    LET ds == IntToDigits(n[3])
        k == Len(ds)
        pt == k + n[4]                 \* the position of the decimal point
        sign == IF n[2] THEN <<"-">> ELSE <<>>
        ex == pt - 1
    IN  sign \o
        (IF k <= pt /\ pt <= 21 THEN ds \o Repeat("0", pt - k)
         ELSE IF 0 < pt /\ pt <= 21 THEN SubSeq(ds, 1, pt) \o <<".">> \o SubSeq(ds, pt + 1, k)
         ELSE IF -6 < pt /\ pt <= 0 THEN <<"0", ".">> \o Repeat("0", 0 - pt) \o ds
         ELSE (IF k = 1 THEN ds ELSE <<ds[1], ".">> \o Tail(ds))
              \o <<"e">> \o (IF ex < 0 THEN <<"-">> \o IntToDigits(0 - ex)
                                       ELSE <<"+">> \o IntToDigits(ex)))

RECURSIVE StringOf(_)
\* String(v)
StringOf(v) ==
  CASE v.t = "null" -> <<"n", "u", "l", "l">>
    [] v.t = "bool" -> IF v.v THEN <<"t", "r", "u", "e">> ELSE <<"f", "a", "l", "s", "e">>
    [] v.t = "num" -> NumberToString(v.v)
    [] v.t = "str" -> v.v
    [] v.t = "arr" ->
         \* Array.prototype.join: null elements give the empty string
         Join([k \in 1..Len(v.v) |-> IF v.v[k].t = "null" THEN <<>> ELSE StringOf(v.v[k])],
              <<",">>)
    [] v.t = "obj" ->
         <<"[", "o", "b", "j", "e", "c", "t", " ", "O", "b", "j", "e", "c", "t", "]">>

\* Number(v)
NumberOf(v) ==
  CASE v.t = "null" -> Fin(FALSE, 0, 0)
    [] v.t = "bool" -> Fin(FALSE, IF v.v THEN 1 ELSE 0, 0)
    [] v.t = "num" -> v.v
    [] v.t = "str" -> StringToNumber(v.v)
    [] v.t \in {"arr", "obj"} -> StringToNumber(StringOf(v))

\* Boolean(v), and the truthiness a condition tests
BooleanOf(v) ==
  CASE v.t = "null" -> FALSE
    [] v.t = "bool" -> v.v
    [] v.t = "num" -> ~(v.v[1] = "nan" \/ (v.v[1] = "fin" /\ v.v[3] = 0))
    [] v.t = "str" -> v.v # <<>>
    [] v.t \in {"arr", "obj"} -> TRUE

(***************************************************************************)
(* Objects: own properties and assignment.                                 *)
(***************************************************************************)
PROTO == <<"_", "_", "p", "r", "o", "t", "o", "_", "_">>

\* A canonical array index: "0", or digits without a leading zero.
IsArrayIndex(key) ==
  /\ key # <<>>
  /\ \A k \in 1..Len(key) : IsDigit(key[k])
  /\ (Len(key) > 1 => key[1] # "0")

HasKey(entries, key) == \E k \in 1..Len(entries) : entries[k].k = key

\* The position a new property takes: array indices come first, in ascending
\* order; other keys follow in the order they were added.
InsertAt(entries, key) ==
  IF IsArrayIndex(key)
    THEN 1 + Cardinality({k \in 1..Len(entries) :
                            IsArrayIndex(entries[k].k)
                              /\ DigitsValue(entries[k].k) < DigitsValue(key)})
    ELSE Len(entries) + 1

\* out[key] = val on an object made by {}: an existing property keeps its place,
\* a new one is inserted.
ObjSetAnyKey(entries, key, val) ==
  IF HasKey(entries, key)
    THEN [k \in 1..Len(entries) |->
            IF entries[k].k = key THEN [k |-> key, v |-> val] ELSE entries[k]]
    ELSE LET p == InsertAt(entries, key)
         IN  SubSeq(entries, 1, p - 1) \o <<[k |-> key, v |-> val]>>
               \o SubSeq(entries, p, Len(entries))

\* out[key] = val on an object made by {}.  The key "__proto__" names the
\* accessor inherited from Object.prototype: the assignment calls its setter and
\* never makes an own property.
ObjSet(entries, key, val) ==
  IF key = PROTO THEN entries ELSE ObjSetAnyKey(entries, key, val)

\* Object.entries(v): the own enumerable properties of ToObject(v).
EntriesOf(v) ==
  CASE v.t = "obj" -> v.v
    [] v.t = "arr" -> [k \in 1..Len(v.v) |-> [k |-> IntToDigits(k - 1), v |-> v.v[k]]]
    [] v.t = "str" -> [k \in 1..Len(v.v) |-> [k |-> IntToDigits(k - 1), v |-> Str(<<v.v[k]>>)]]
    [] v.t \in {"num", "bool"} -> <<>>

(***************************************************************************)
(* DynamoDB AttributeValue unmarshalling (App.jsx 93-145).                 *)
(***************************************************************************)
AV_KEYS ==
  {<<"S">>, <<"N">>, <<"B", "O", "O", "L">>, <<"N", "U", "L", "L">>, <<"M">>, <<"L">>,
   <<"S", "S">>, <<"N", "S">>, <<"B", "S">>, <<"B">>}

isAttributeValue(obj) ==
  /\ obj.t = "obj"
  /\ Len(obj.v) = 1
  /\ obj.v[1].k \in AV_KEYS

\* Object.values(obj || {}) is not empty and every one is an AttributeValue.
maybeMapOfAVs(obj) ==
  /\ Len(obj.v) # 0
  /\ \A k \in 1..Len(obj.v) : isAttributeValue(obj.v[k].v)

\* value.M is truthy: value has an own property M with a truthy value.
HasTruthyM(value) ==
  \E k \in 1..Len(value.v) : value.v[k].k = <<"M">> /\ BooleanOf(value.v[k].v)

\* value.M
PropertyM(value) == value.v[CHOOSE k \in 1..Len(value.v) : value.v[k].k = <<"M">>].v

RECURSIVE unmarshallDeep(_), unmarshallAV(_), unmarshallMap(_), UnmarshallEntries(_, _, _)

\* for (const [k, v] of entries) out[k] = unmarshallDeep(v), from entry n on
UnmarshallEntries(entries, n, out) ==
  IF n > Len(entries) THEN out
  ELSE UnmarshallEntries(entries, n + 1,
                         ObjSet(out, entries[n].k, unmarshallDeep(entries[n].v)))

unmarshallAV(av) ==
  LET t == av.v[1].k
      v == av.v[1].v
  IN  CASE t = <<"S">> -> Str(StringOf(v))
        [] t = <<"N">> -> NumV(NumberOf(v))
        [] t = <<"B", "O", "O", "L">> -> Bool(BooleanOf(v))
        [] t = <<"N", "U", "L", "L">> -> Null
        [] t = <<"S", "S">> ->
             IF v.t = "arr" THEN Arr([k \in 1..Len(v.v) |-> Str(StringOf(v.v[k]))]) ELSE Arr(<<>>)
        [] t = <<"N", "S">> ->
             IF v.t = "arr" THEN Arr([k \in 1..Len(v.v) |-> NumV(NumberOf(v.v[k]))]) ELSE Arr(<<>>)
        [] t = <<"L">> ->
             IF v.t = "arr" THEN Arr([k \in 1..Len(v.v) |-> unmarshallDeep(v.v[k])]) ELSE Arr(<<>>)
        [] t = <<"M">> -> unmarshallMap(v)
        [] t \in {<<"B">>, <<"B", "S">>} -> v

\* Object.entries(obj || {})
unmarshallMap(obj) ==
  Obj(UnmarshallEntries(IF BooleanOf(obj) THEN EntriesOf(obj) ELSE <<>>, 1, <<>>))

\* Line 138 without its shortcut: an object is never read as an M AttributeValue
\* unless isAttributeValue said so.
unmarshallObjectNoShortcut(value) ==
  IF maybeMapOfAVs(value) THEN unmarshallMap(value)
  ELSE Obj(UnmarshallEntries(value.v, 1, <<>>))

\* unmarshallDeep on an object that is not an AttributeValue (lines 137-143).
\* isAttributeValue({ M: value.M }) holds of every value.M.
unmarshallObject(value) ==
  IF HasTruthyM(value) /\ isAttributeValue(Obj(<<[k |-> <<"M">>, v |-> PropertyM(value)]>>))
    THEN unmarshallAV(Obj(<<[k |-> <<"M">>, v |-> PropertyM(value)]>>))
  ELSE IF maybeMapOfAVs(value) THEN unmarshallMap(value)
  ELSE Obj(UnmarshallEntries(value.v, 1, <<>>))

unmarshallDeep(value) ==
  IF isAttributeValue(value) THEN unmarshallAV(value)
  ELSE IF value.t = "arr" THEN Arr([k \in 1..Len(value.v) |-> unmarshallDeep(value.v[k])])
  ELSE IF value.t = "obj" THEN unmarshallObject(value)
  ELSE value

(***************************************************************************)
(* Type inference (App.jsx 150-173).                                       *)
(***************************************************************************)
UpperCase == <<"A", "E", "F", "L", "N", "R", "S", "T", "U">>
LowerCase == <<"a", "e", "f", "l", "n", "r", "s", "t", "u">>

\* toLowerCase, on the letters of the model
ToLowerCase(s) ==
  [k \in 1..Len(s) |->
     IF s[k] \in Range(UpperCase)
       THEN LowerCase[CHOOSE j \in 1..Len(UpperCase) : UpperCase[j] = s[k]]
       ELSE s[k]]

RECURSIVE NumericRun(_, _, _)
\* /^-?\d+(?:\.\d+)?(?:[eE][+-]?\d+)?$/ as an automaton run from position k in
\* state q: 0 start, 1 after "-", 2 in the integer digits, 3 after ".", 4 in
\* the fraction digits, 5 after "e", 6 after the exponent sign, 7 in the exponent
\* digits.  The pattern matches when the run ends in state 2, 4 or 7.
NumericRun(t, k, q) ==
  IF k > Len(t) THEN q \in {2, 4, 7}
  ELSE LET c == t[k]
       IN  CASE q = 0 /\ c = "-" -> NumericRun(t, k + 1, 1)
             [] q \in {0, 1, 2} /\ IsDigit(c) -> NumericRun(t, k + 1, 2)
             [] q = 2 /\ c = "." -> NumericRun(t, k + 1, 3)
             [] q \in {3, 4} /\ IsDigit(c) -> NumericRun(t, k + 1, 4)
             [] q \in {2, 4} /\ c \in {"e", "E"} -> NumericRun(t, k + 1, 5)
             [] q = 5 /\ c \in {"+", "-"} -> NumericRun(t, k + 1, 6)
             [] q \in {5, 6, 7} /\ IsDigit(c) -> NumericRun(t, k + 1, 7)
             [] OTHER -> FALSE

NumericTest(t) == NumericRun(t, 1, 0)

inferScalar(str) ==
  IF str.t # "str" THEN str
  ELSE LET t == Trim(str.v)
           lower == ToLowerCase(t)
       IN  IF t = <<>> THEN str
           ELSE IF lower = <<"n", "u", "l", "l">> THEN Null
           ELSE IF lower = <<"t", "r", "u", "e">> THEN Bool(TRUE)
           ELSE IF lower = <<"f", "a", "l", "s", "e">> THEN Bool(FALSE)
           ELSE IF NumericTest(t) /\ StringToNumber(t)[1] = "fin" THEN NumV(StringToNumber(t))
           ELSE str

RECURSIVE coerceDeep(_), CoerceEntries(_, _, _)

\* for (const [k, v] of Object.entries(value)) out[k] = coerceDeep(v), from entry n on
CoerceEntries(entries, n, out) ==
  IF n > Len(entries) THEN out
  ELSE CoerceEntries(entries, n + 1, ObjSet(out, entries[n].k, coerceDeep(entries[n].v)))

coerceDeep(value) ==
  IF value.t = "arr" THEN Arr([k \in 1..Len(value.v) |-> coerceDeep(value.v[k])])
  ELSE IF value.t = "obj" THEN Obj(CoerceEntries(value.v, 1, <<>>))
  ELSE inferScalar(value)

(***************************************************************************)
(* The values unmarshallDeep, coerceDeep and inferScalar are run on:       *)
(* trees of depth up to 2 as JSON.parse makes them, and strings.  A        *)
(* property named __proto__ holds a scalar here (assigning an object to    *)
(* out.__proto__ would also change the prototype of out, which the model   *)
(* does not keep).                                                         *)
(***************************************************************************)
Leaves ==
  {Null, Bool(TRUE), Bool(FALSE), NumV(Fin(FALSE, 2, 0)), Str(<<>>), Str(<<"x">>), Str(<<"1">>)}

KeyChoices == AV_KEYS \cup {<<"a">>, PROTO}

KeyPairs ==
  {<< <<"M">>, <<"a">> >>, << <<"a">>, <<"M">> >>, << <<"a">>, <<"b">> >>,
   << PROTO, <<"S">> >>, << <<"a">>, PROTO >>}

OneKey(k, v) == Obj(<<[k |-> k, v |-> v]>>)
TwoKeys(kk, v, w) == Obj(<<[k |-> kk[1], v |-> v], [k |-> kk[2], v |-> w]>>)

\* AttributeValues with a leaf payload
LeafAVs == {OneKey(k, v) : k \in AV_KEYS, v \in Leaves}

Depth1 ==
  Leaves
    \cup {Obj(<<>>), Arr(<<>>)}
    \cup {OneKey(k, v) : k \in KeyChoices, v \in Leaves}
    \cup {Arr(<<v>>) : v \in Leaves}
    \cup {Arr(<<v, w>>) : v, w \in {Null, Str(<<"x">>)}}
    \cup {TwoKeys(kk, v, w) : kk \in KeyPairs, v, w \in Leaves}

Depth2 ==
  {OneKey(k, v) : k \in KeyChoices, v \in Depth1}
    \cup {Arr(<<v>>) : v \in Depth1}
    \cup {TwoKeys(kk, v, w) : kk \in KeyPairs, v \in Depth1, w \in {Str(<<"x">>), NumV(Fin(FALSE, 2, 0))}}
    \cup {TwoKeys(kk, v, w) : kk \in {<< <<"M">>, <<"a">> >>, << <<"a">>, <<"b">> >>},
                              v \in LeafAVs, w \in LeafAVs}

\* Strings for inferScalar: every string over a numeric alphabet, and the
\* keywords, numerals and near misses.
StringChoices ==
  Strings({"1", "-", "+", ".", "e", " "}, MaxStrLen)
    \cup {<<"n", "u", "l", "l">>, <<"N", "U", "L", "L">>, <<"t", "r", "u", "e">>,
          <<" ", "T", "r", "u", "E", TAB>>, <<"f", "a", "l", "s", "e">>,
          <<"F", "A", "L", "S", "E", LF>>, <<"n", "u", "l">>, <<"t", "r", "u", "e", "x">>,
          <<"1", "2", "3", ".", "4", "5">>, <<"1", "E", "5">>, <<"0", "1">>,
          <<"1", "e", "9", "9", "9">>, <<"-", "9", "e", "3", "0", "8">>,
          <<"1", "e", "3", "0", "8">>, <<" ", ".", "5">>, <<"1", "2", "a">>}

Values == Depth1 \cup Depth2 \cup {Str(s) : s \in StringChoices}

InitValue ==
  /\ pc = "input"
  /\ input \in Values
  /\ calls = <<>>
  /\ returned = <<>>
  /\ ParseUnused
  /\ DetectUnused
  /\ ConvertUnused
  /\ AppUnused

\* The argument of the next call: the first argument, or the last result.
Argument == IF returned = <<>> THEN input ELSE returned[Len(returned)]

CallUnmarshallDeep ==
  /\ pc = "input"
  /\ Len(calls) < MaxCalls
  /\ calls' = Append(calls, "unmarshallDeep")
  /\ returned' = Append(returned, unmarshallDeep(Argument))
  /\ UNCHANGED <<pc, input, parseVars, detectVars, convertVars, appVars>>

CallCoerceDeep ==
  /\ pc = "input"
  /\ Len(calls) < MaxCalls
  /\ calls' = Append(calls, "coerceDeep")
  /\ returned' = Append(returned, coerceDeep(Argument))
  /\ UNCHANGED <<pc, input, parseVars, detectVars, convertVars, appVars>>

CallInferScalar ==
  /\ pc = "input"
  /\ Len(calls) < MaxCalls
  /\ calls' = Append(calls, "inferScalar")
  /\ returned' = Append(returned, inferScalar(Argument))
  /\ UNCHANGED <<pc, input, parseVars, detectVars, convertVars, appVars>>

NextValue == CallUnmarshallDeep \/ CallCoerceDeep \/ CallInferScalar

SpecValue == InitValue /\ [][NextValue]_vars

(***************************************************************************)
(* Claims about unmarshallDeep, coerceDeep and inferScalar.                *)
(***************************************************************************)
KeysOf(obj) == [k \in 1..Len(obj.v) |-> obj.v[k].k]

\* Object r has the keys of object v, and under each the image by F of v's value.
ImageUnmarshalled(v, r) ==
  /\ r.t = "obj"
  /\ Range(KeysOf(r)) = Range(KeysOf(v))
  /\ Len(r.v) = Len(v.v)
  /\ \A k \in 1..Len(v.v) : \E j \in 1..Len(r.v) :
       r.v[j].k = v.v[k].k /\ r.v[j].v = unmarshallDeep(v.v[k].v)

\* r is AttributeValue av decoded by its tag.
DecodedByTag(av, r) ==
  LET t == av.v[1].k
      p == av.v[1].v
  IN  /\ t = <<"S">> => r.t = "str" /\ r.v = StringOf(p) /\ (p.t = "str" => r = p)
      /\ t = <<"N">> => r.t = "num" /\ r.v = NumberOf(p) /\ (p.t = "num" => r = p)
      /\ t = <<"B", "O", "O", "L">> => r.t = "bool" /\ (p.t = "bool" => r = p)
      /\ t = <<"N", "U", "L", "L">> => r = Null
      /\ t = <<"L">> =>
           r = Arr(IF p.t = "arr" THEN [k \in 1..Len(p.v) |-> unmarshallDeep(p.v[k])] ELSE <<>>)
      /\ (t = <<"M">> /\ p = Null) => r = Obj(<<>>)
      /\ (t = <<"M">> /\ p.t = "obj") => ImageUnmarshalled(p, r)
      /\ t \in {<<"B">>, <<"B", "S">>} => r = p

FirstCallIs(f) == pc = "input" /\ Len(calls) >= 1 /\ calls[1] = f

\* C5: unmarshallDeep returns a value on every input; an AttributeValue is
\* decoded by its tag (S: the payload as a string, N: as a number, BOOL: the
\* boolean, NULL: null, L: the elements unmarshalled, or [] for a payload that is
\* no array, M: the payload's keys with its values unmarshalled, or {} for a
\* missing payload, B and BS: the payload itself); and an object that is no
\* AttributeValue and whose values all are is decoded entry by entry.
C5_DecodesByTag ==
  FirstCallIs("unmarshallDeep") =>
    /\ returned[1].t \in {"null", "bool", "num", "str", "arr", "obj"}
    /\ isAttributeValue(input) => DecodedByTag(input, returned[1])
    /\ (input.t = "obj" /\ ~isAttributeValue(input) /\ maybeMapOfAVs(input)) =>
         /\ ImageUnmarshalled(input, returned[1])
         /\ \A k \in 1..Len(input.v) : \E j \in 1..Len(returned[1].v) :
              /\ returned[1].v[j].k = input.v[k].k
              /\ DecodedByTag(input.v[k].v, returned[1].v[j].v)

\* C6: on an object that is not itself an AttributeValue, unmarshallDeep returns
\* an object with exactly the same keys, each holding the unmarshalled form of
\* the value the original holds under that key.
C6_KeysPreserved ==
  (FirstCallIs("unmarshallDeep") /\ input.t = "obj" /\ ~isAttributeValue(input)) =>
    ImageUnmarshalled(input, returned[1])

RECURSIVE NoAVShape(_)
\* No object of the tree is shaped like an AttributeValue.
NoAVShape(v) ==
  CASE v.t = "arr" -> \A k \in 1..Len(v.v) : NoAVShape(v.v[k])
    [] v.t = "obj" -> ~isAttributeValue(v) /\ \A k \in 1..Len(v.v) : NoAVShape(v.v[k].v)
    [] OTHER -> TRUE

RECURSIVE NoNumericString(_)
\* No string of the tree reads as a number.
NoNumericString(v) ==
  CASE v.t = "arr" -> \A k \in 1..Len(v.v) : NoNumericString(v.v[k])
    [] v.t = "obj" -> \A k \in 1..Len(v.v) : NoNumericString(v.v[k].v)
    [] v.t = "str" -> ~NumericTest(Trim(v.v))
    [] OTHER -> TRUE

\* C7: on a tree with no AttributeValue-shaped object and no numeric-looking
\* string, coerceDeep and unmarshallDeep are idempotent.
C7_Idempotent ==
  (pc = "input" /\ Len(calls) >= 2 /\ calls[1] = calls[2]
     /\ calls[1] \in {"coerceDeep", "unmarshallDeep"}
     /\ NoAVShape(input) /\ NoNumericString(input))
    => returned[2] = returned[1]

AllDigits(s, from, to) == from <= to /\ \A k \in from..to : IsDigit(s[k])

\* s is an optional minus sign, digits, an optional fraction of a point and
\* digits, and an optional exponent of e or E, an optional sign and digits.
MatchesNumeric(s) ==
  LET n  == Len(s)
      s0 == IF n >= 1 /\ s[1] = "-" THEN 2 ELSE 1
  IN  \E p1 \in (s0 + 1)..(n + 1) :
        /\ AllDigits(s, s0, p1 - 1)
        /\ \E p2 \in p1..(n + 1) :
             /\ \/ p2 = p1
                \/ p2 >= p1 + 2 /\ s[p1] = "." /\ AllDigits(s, p1 + 1, p2 - 1)
             /\ \/ p2 = n + 1
                \/ /\ s[p2] \in {"e", "E"}
                   /\ LET q == IF p2 + 1 <= n /\ s[p2 + 1] \in {"+", "-"} THEN p2 + 2 ELSE p2 + 1
                      IN  AllDigits(s, q, n)

\* r is what the claim says inferScalar returns on the scalar v.
InferredFrom(v, r) ==
  IF v.t # "str" THEN r = v
  ELSE LET s == Trim(v.v)
           l == ToLowerCase(s)
       IN  CASE s = <<>> -> r = v
             [] l = <<"n", "u", "l", "l">> -> r = Null
             [] l = <<"t", "r", "u", "e">> -> r = Bool(TRUE)
             [] l = <<"f", "a", "l", "s", "e">> -> r = Bool(FALSE)
             [] MatchesNumeric(s) /\ StringToNumber(s)[1] = "fin" -> r = NumV(StringToNumber(s))
             [] OTHER -> r = v

RECURSIVE LeavesInferred(_, _)
\* r is the tree v with its arrays and keys unchanged and every leaf inferred.
LeavesInferred(v, r) ==
  CASE v.t = "arr" ->
         /\ r.t = "arr" /\ Len(r.v) = Len(v.v)
         /\ \A k \in 1..Len(v.v) : LeavesInferred(v.v[k], r.v[k])
    [] v.t = "obj" ->
         /\ r.t = "obj" /\ KeysOf(r) = KeysOf(v)
         /\ \A k \in 1..Len(v.v) : LeavesInferred(v.v[k].v, r.v[k].v)
    [] OTHER -> InferredFrom(v, r)

\* The part of C8 that is about inferScalar alone.
C8_ScalarInferred ==
  (FirstCallIs("inferScalar") /\ input.t \notin {"arr", "obj"}) =>
    InferredFrom(input, returned[1])

\* C8: inferScalar returns a non-string unchanged; it returns an empty or
\* whitespace-only string itself, null, true or false for a string that trims
\* to one of these words in any letter case, the number for one that trims to
\* the numeric pattern with a finite value, and the original untrimmed string
\* otherwise; coerceDeep applies it to every leaf of arrays and objects and
\* alters no key and no length.
C8_InferredLeaves ==
  /\ C8_ScalarInferred
  /\ FirstCallIs("coerceDeep") => LeavesInferred(input, returned[1])

(***************************************************************************)
(* JSON.parse (App.jsx 186), by the JSON grammar of ECMA-404: the result   *)
(* is [ok |-> TRUE, v |-> the value, p |-> the position after it], or      *)
(* SyntaxError where JSON.parse throws.                                    *)
(***************************************************************************)
SyntaxError == [ok |-> FALSE]
Parsed(v, p) == [ok |-> TRUE, v |-> v, p |-> p]

JSONWhiteSpace == {" ", TAB, LF, CR}

RECURSIVE SkipWhiteSpace(_, _)
SkipWhiteSpace(s, p) ==
  IF p <= Len(s) /\ s[p] \in JSONWhiteSpace THEN SkipWhiteSpace(s, p + 1) ELSE p

\* The characters of codes 32 to 95 and 97 to 126.
Printable ==
  <<" ", "!", "\"", "#", "$", "%", "&", "'", "(", ")", "*", "+", ",", "-",
    ".", "/", "0", "1", "2", "3", "4", "5", "6", "7", "8", "9", ":", ";",
    "<", "=", ">", "?", "@", "A", "B", "C", "D", "E", "F", "G", "H", "I",
    "J", "K", "L", "M", "N", "O", "P", "Q", "R", "S", "T", "U", "V", "W",
    "X", "Y", "Z", "[", "\\", "]", "^", "_", "a", "b", "c", "d", "e",
    "f", "g", "h", "i", "j", "k", "l", "m", "n", "o", "p", "q", "r", "s",
    "t", "u", "v", "w", "x", "y", "z", "{", "|", "}", "~">>

HexDigits == <<"0", "1", "2", "3", "4", "5", "6", "7", "8", "9", "a", "b", "c", "d", "e", "f">>
HexUpper == <<"A", "B", "C", "D", "E", "F">>
IsHex(c) == c \in Range(HexDigits) \cup Range(HexUpper)
HexVal(c) ==
  IF c \in Range(HexUpper) THEN 9 + (CHOOSE k \in 1..6 : HexUpper[k] = c)
  ELSE (CHOOSE k \in 1..16 : HexDigits[k] = c) - 1

\* The character of code unit n; one outside the table is written \uXXXX.
CodeUnit(n) ==
  CASE n \in 32..95 -> Printable[n - 31]
    [] n \in 97..126 -> Printable[n - 32]
    [] n = 9 -> TAB
    [] n = 10 -> LF
    [] n = 13 -> CR
    [] OTHER -> "\\u" \o HexDigits[(n \div 4096) + 1] \o HexDigits[((n \div 256) % 16) + 1]
                  \o HexDigits[((n \div 16) % 16) + 1] \o HexDigits[(n % 16) + 1]

\* The character an escape \c stands for.
Escaped(c) ==
  CASE c = "b" -> CodeUnit(8)
    [] c = "f" -> CodeUnit(12)
    [] c = "n" -> LF
    [] c = "r" -> CR
    [] c = "t" -> TAB
    [] OTHER -> c

RECURSIVE ParseStringFrom(_, _, _)
\* A string literal whose opening quote is before position p; acc is what was read.
ParseStringFrom(s, p, acc) ==
  IF p > Len(s) THEN SyntaxError
  ELSE IF s[p] = QUOTE THEN Parsed(Str(acc), p + 1)
  ELSE IF s[p] \in {TAB, LF, CR} THEN SyntaxError
  ELSE IF s[p] # "\\" THEN ParseStringFrom(s, p + 1, Append(acc, s[p]))
  ELSE IF p + 1 > Len(s) THEN SyntaxError
  ELSE IF s[p + 1] \in {QUOTE, "\\", "/", "b", "f", "n", "r", "t"}
    THEN ParseStringFrom(s, p + 2, Append(acc, Escaped(s[p + 1])))
  ELSE IF s[p + 1] = "u" /\ p + 5 <= Len(s) /\ \A k \in 2..5 : IsHex(s[p + k])
    THEN ParseStringFrom(s, p + 6,
           Append(acc, CodeUnit(4096 * HexVal(s[p + 2]) + 256 * HexVal(s[p + 3])
                                  + 16 * HexVal(s[p + 4]) + HexVal(s[p + 5]))))
  ELSE SyntaxError

\* The position after the integer part at p1, a 0 or a run of digits that
\* does not start with 0; position 0 stands for no match.
AfterInt(s, p1) ==
  IF DigitRun(s, p1) = 0 \/ (DigitRun(s, p1) > 1 /\ s[p1] = "0") THEN 0
  ELSE p1 + DigitRun(s, p1)

\* The position after the optional fraction at p2, a point and digits.
AfterFrac(s, p2) ==
  IF p2 = 0 THEN 0
  ELSE IF p2 <= Len(s) /\ s[p2] = "."
    THEN IF DigitRun(s, p2 + 1) = 0 THEN 0 ELSE p2 + 1 + DigitRun(s, p2 + 1)
  ELSE p2

AfterSign(s, p) == IF p <= Len(s) /\ s[p] \in {"+", "-"} THEN p + 1 ELSE p

\* The position after the optional exponent at p3: e or E, a sign, digits.
AfterExp(s, p3) ==
  IF p3 = 0 THEN 0
  ELSE IF p3 <= Len(s) /\ s[p3] \in {"e", "E"}
    THEN IF DigitRun(s, AfterSign(s, p3 + 1)) = 0 THEN 0
         ELSE AfterSign(s, p3 + 1) + DigitRun(s, AfterSign(s, p3 + 1))
  ELSE p3

NumberEnd(s, p) == AfterExp(s, AfterFrac(s, AfterInt(s, IF s[p] = "-" THEN p + 1 ELSE p)))

\* The number literal from position p to before position end of s
NumberUpTo(s, p, end) ==
  IF end = 0 THEN SyntaxError
  ELSE Parsed(NumV(StringToNumber(SubSeq(s, p, end - 1))), end)

\* A number literal at position p: -? (0 | [1-9] digits) (. digits)? ([eE] [+-]? digits)?
ParseNumber(s, p) == NumberUpTo(s, p, NumberEnd(s, p))

\* The word w stands at position p of s.
WordAt(s, p, w) == p + Len(w) - 1 <= Len(s) /\ SubSeq(s, p, p + Len(w) - 1) = w

RECURSIVE ParseValue(_, _), ParseElements(_, _, _), Element(_, _, _),
          AfterElement(_, _, _, _), ParseMembers(_, _, _), MemberKey(_, _, _),
          MemberColon(_, _, _), MemberValue(_, _, _, _), Member(_, _, _, _),
          AfterMember(_, _, _), ArrayAt(_, _, _), ObjectAt(_, _, _)

\* After the element r of an array, at the position q past the white space
AfterElement(s, r, q, acc) ==
  IF q > Len(s) THEN SyntaxError
  ELSE IF s[q] = "," THEN ParseElements(s, q + 1, Append(acc, r.v))
  ELSE IF s[q] = "]" THEN Parsed(Arr(Append(acc, r.v)), q + 1)
  ELSE SyntaxError

Element(s, r, acc) ==
  IF ~r.ok THEN SyntaxError ELSE AfterElement(s, r, SkipWhiteSpace(s, r.p), acc)

\* The elements of an array from position p on, after "[" or ","
ParseElements(s, p, acc) == Element(s, ParseValue(s, SkipWhiteSpace(s, p)), acc)

\* After a member of an object, at the position e past the white space
AfterMember(s, e, out) ==
  IF e > Len(s) THEN SyntaxError
  ELSE IF s[e] = "," THEN ParseMembers(s, e + 1, out)
  ELSE IF s[e] = "}" THEN Parsed(Obj(out), e + 1)
  ELSE SyntaxError

\* The member of name key and value r is defined as an own property, whatever
\* its name; a repeated name keeps its place and takes the last value.
Member(s, key, r, acc) ==
  IF ~r.ok THEN SyntaxError
  ELSE AfterMember(s, SkipWhiteSpace(s, r.p), ObjSetAnyKey(acc, key.v.v, r.v))

MemberValue(s, key, c, acc) ==
  IF c > Len(s) \/ s[c] # ":" THEN SyntaxError
  ELSE Member(s, key, ParseValue(s, SkipWhiteSpace(s, c + 1)), acc)

MemberColon(s, key, acc) ==
  IF ~key.ok THEN SyntaxError ELSE MemberValue(s, key, SkipWhiteSpace(s, key.p), acc)

MemberKey(s, q, acc) ==
  IF q > Len(s) \/ s[q] # QUOTE THEN SyntaxError
  ELSE MemberColon(s, ParseStringFrom(s, q + 1, <<>>), acc)

\* The members of an object from position p on, after "{" or ","
ParseMembers(s, p, acc) == MemberKey(s, SkipWhiteSpace(s, p), acc)

\* The array whose "[" is at position p, q being the position past the white space after it
ArrayAt(s, p, q) ==
  IF q <= Len(s) /\ s[q] = "]" THEN Parsed(Arr(<<>>), q + 1)
  ELSE ParseElements(s, p + 1, <<>>)

\* The object whose "{" is at position p, q being the position past the white space after it
ObjectAt(s, p, q) ==
  IF q <= Len(s) /\ s[q] = "}" THEN Parsed(Obj(<<>>), q + 1)
  ELSE ParseMembers(s, p + 1, <<>>)

\* The value at position p, which is no white space.
ParseValue(s, p) ==
  IF p > Len(s) THEN SyntaxError
  ELSE IF s[p] = "{" THEN ObjectAt(s, p, SkipWhiteSpace(s, p + 1))
  ELSE IF s[p] = "[" THEN ArrayAt(s, p, SkipWhiteSpace(s, p + 1))
  ELSE IF s[p] = QUOTE THEN ParseStringFrom(s, p + 1, <<>>)
  ELSE IF s[p] = "-" \/ IsDigit(s[p]) THEN ParseNumber(s, p)
  ELSE IF WordAt(s, p, <<"t", "r", "u", "e">>) THEN Parsed(Bool(TRUE), p + 4)
  ELSE IF WordAt(s, p, <<"f", "a", "l", "s", "e">>) THEN Parsed(Bool(FALSE), p + 5)
  ELSE IF WordAt(s, p, <<"n", "u", "l", "l">>) THEN Parsed(Null, p + 4)
  ELSE SyntaxError

\* The value r, if white space and nothing else follows it.
WholeText(s, r) ==
  IF r.ok /\ SkipWhiteSpace(s, r.p) = Len(s) + 1 THEN r ELSE SyntaxError

\* JSON.parse(s): one value, with white space around it and nothing else.
JSONparse(s) == WholeText(s, ParseValue(s, SkipWhiteSpace(s, 1)))

(***************************************************************************)
(* looksLikeJSON (App.jsx 83-88) and convertRowsToObjects (App.jsx 175-198)*)
(***************************************************************************)
looksLikeJSON(value) ==
  /\ value.t = "str"
  /\ LET t == Trim(value.v)
     IN  /\ t # <<>>
         /\ \/ t[1] = "{"
            \/ t[1] = "["
            \/ t[1] = QUOTE /\ Len(t) >= 2 /\ t[2] \in {"{", "["}

\* r.some(cell => (cell ?? "").trim() !== ""), without the trim
RowHasContentUntrimmed(r) == \E k \in 1..Len(r) : r[k] # <<>>

\* r.some(cell => (cell ?? "").trim() !== "")
RowHasContent(r) == \E k \in 1..Len(r) : Trim(r[k]) # <<>>

\* `col_${idx + 1}`, for the 1-based position idx
ColName(idx) == <<"c", "o", "l", "_">> \o IntToDigits(idx)

\* r[idx] ?? ""
CellAt(r, idx) == IF idx <= Len(r) THEN r[idx] ELSE <<>>

\* try { v = JSON.parse(v); } catch {}
ParsedOr(v, r) == IF r.ok THEN r.v ELSE v

\* lines 185 to 187
Nested(v, opts) ==
  IF opts.parseNestedJSON /\ looksLikeJSON(v) THEN ParsedOr(v, JSONparse(v.v)) ELSE v

\* lines 188 to 190
Unmarshalled(v, opts) ==
  IF opts.doUnmarshall /\ v.t \in {"arr", "obj"} THEN unmarshallDeep(v) ELSE v

\* lines 191 to 193
Inferred(v, opts) == IF opts.doInferTypes THEN coerceDeep(v) ELSE v

\* The value stored for a cell: lines 184 to 193.
ConvertCell(cell, opts) == Inferred(Unmarshalled(Nested(Str(cell), opts), opts), opts)

RECURSIVE ConvertRow(_, _, _, _, _)
\* headers.forEach((h, idx) => ...) from position idx on, obj being built
ConvertRow(headers, r, opts, idx, obj) ==
  IF idx > Len(headers) THEN obj
  ELSE ConvertRow(headers, r, opts, idx + 1,
         ObjSet(obj, IF headers[idx] # <<>> THEN headers[idx] ELSE ColName(idx),
                ConvertCell(CellAt(r, idx), opts)))

convertRowsToObjects(rs, opts) ==
  IF rs = <<>> THEN <<>>
  ELSE LET headers  == [k \in 1..Len(rs[1]) |-> Trim(rs[1][k])]
           dataRows == Tail(rs)
           kept     == SelectSeq(dataRows, RowHasContent)
       IN  [k \in 1..Len(kept) |-> Obj(ConvertRow(headers, kept[k], opts, 1, <<>>))]

(***************************************************************************)
(* Inputs and the specification of convertRowsToObjects.  parseCSV returns *)
(* rows of at least one field each, and any such table is returned for     *)
(* some text, so the rows are drawn from the tables of non-empty rows.     *)
(***************************************************************************)
Seqs(S, lo, hi) == UNION {[1..k -> S] : k \in lo..hi}

HeaderCells == {<<>>, <<"a">>, <<" ", "a">>, <<"c", "o", "l", "_", "2">>, <<"1">>, PROTO}

PlainCells == {<<>>, <<" ">>, <<"x">>}

JSONCells ==
  {<<"{", QUOTE, "S", QUOTE, ":", QUOTE, "x", QUOTE, "}">>,
   <<"[", "1", ",", " ", QUOTE, "2", QUOTE, "]">>,
   <<"{", QUOTE, "a", QUOTE>>,
   <<" ", "{", QUOTE, "M", QUOTE, ":", "{", QUOTE, "N", QUOTE, ":", QUOTE, "1", QUOTE, "}", ",", QUOTE, "a", QUOTE, ":", QUOTE, "x", QUOTE, "}">>,
   <<QUOTE, "[">>,
   <<"{", QUOTE, "S", QUOTE, ":", QUOTE, "1", "2", QUOTE, "}">>,
   <<"[", QUOTE, "n", "u", "l", "l", QUOTE, "]">>,
   <<"1">>}

\* Cells of the longer header rows: blank, equal after the trim, and named as
\* the positional name of the second column.
RepeatedCells == {<<>>, <<"a">>, <<" ", "a">>, <<"c", "o", "l", "_", "2">>}

HeaderRows ==
  Seqs(HeaderCells, 1, 1) \cup Seqs(RepeatedCells, 2, MaxHeaderLen)
    \cup {<< <<"a">>, <<"1">> >>, << <<"a">>, PROTO >>}

DataRowChoices == Seqs(PlainCells, 1, MaxRowLen) \cup Seqs(JSONCells, 1, 2)

\* Rows of the tables of several data rows, blank ones and others.
ShortRows ==
  {<< <<>> >>, << <<" ">>, <<>> >>, << <<"x">> >>, << <<"x">>, <<" ">> >>,
   << <<>>, <<"1">> >>, << <<" ">>, <<" ">>, <<" ">> >>}

DataTables ==
  {<<>>} \cup {<<r>> : r \in DataRowChoices} \cup Seqs(ShortRows, 2, MaxRecords)

InitConvert ==
  /\ pc = "convert"
  /\ rows \in {<<>>} \cup {<<h>> \o d : h \in HeaderRows, d \in DataTables}
  /\ parseNestedJSON \in BOOLEAN
  /\ doUnmarshall \in BOOLEAN
  /\ doInferTypes \in BOOLEAN
  /\ objects = <<>>
  /\ text = Unused /\ delimiter = Unused /\ i = Unused /\ field = Unused
  /\ row = Unused /\ inQuotes = Unused
  /\ DetectUnused
  /\ ValueUnused
  /\ AppUnused

Options ==
  [parseNestedJSON |-> parseNestedJSON, doUnmarshall |-> doUnmarshall,
   doInferTypes |-> doInferTypes]

Convert ==
  /\ pc = "convert"
  /\ objects' = convertRowsToObjects(rows, Options)
  /\ pc' = "converted"
  /\ UNCHANGED <<parseVars, detectVars, valueVars, appVars>>
  /\ UNCHANGED <<parseNestedJSON, doUnmarshall, doInferTypes>>

NextConvert == Convert

SpecConvert == InitConvert /\ [][NextConvert]_vars

(***************************************************************************)
(* Claims about convertRowsToObjects.                                      *)
(***************************************************************************)
\* The key the header cell at position n stands for.
ExpectedKey(n) == IF Trim(rows[1][n]) = <<>> THEN ColName(n) ELSE Trim(rows[1][n])

\* C9: every record has as many keys as the header row has cells; the key at
\* position n is the trimmed header text, or col_<n> for a blank header cell,
\* and the keys are in header order.
C9_KeysFollowHeader ==
  pc = "converted" =>
    \A k \in 1..Len(objects) :
      /\ Len(objects[k].v) = Len(rows[1])
      /\ \A n \in 1..Len(rows[1]) : objects[k].v[n].k = ExpectedKey(n)

\* Some field of row r has a character that is no white space.
NonBlank(r) == \E j \in 1..Len(r) : \E m \in 1..Len(r[j]) : r[j][m] \notin WhiteSpace

\* The positions in rows of the data rows that are not blank.
KeptIndices == {k \in 2..Len(rows) : NonBlank(rows[k])}

\* The n-th of them.
NthKept(n) == CHOOSE k \in KeptIndices : Cardinality({j \in KeptIndices : j <= k}) = n

\* The record of the row at position k of rows.
RecordOf(k) ==
  Obj(ConvertRow([j \in 1..Len(rows[1]) |-> Trim(rows[1][j])], rows[k], Options, 1, <<>>))

\* C10: convertRowsToObjects returns one record for each data row that has a
\* field with a character that is no white space, in the order of the rows; a
\* data row of empty or whitespace-only fields gives no record, whatever its
\* length, and no rows give no records.
C10_OneRecordPerRow ==
  pc = "converted" =>
    /\ Len(objects) = Cardinality(KeptIndices)
    /\ \A n \in 1..Len(objects) : objects[n] = RecordOf(NthKept(n))
    /\ rows = <<>> => objects = <<>>

\* A blank row of two fields, one of them a space, is dropped and the row after
\* it gives the only record.
C10_Witness ==
  /\ pc = "converted"
  /\ Len(rows) = 3
  /\ rows[2] = << <<" ">>, <<>> >>
  /\ rows[3] = << <<"x">>, <<" ">> >>
  /\ objects = <<RecordOf(3)>>

\* The cell looks like an embedded structure and JSON.parse throws on it.
Malformed(cell) == looksLikeJSON(Str(cell)) /\ ~JSONparse(cell).ok

\* The value record rec holds under key.
ValueUnder(rec, key) == rec.v[CHOOSE j \in 1..Len(rec.v) : rec.v[j].k = key].v

\* Record rec holds value val under the key of the header cell at position c.
HoldsAt(rec, c, val) ==
  /\ HasKey(rec.v, ExpectedKey(c))
  /\ ValueUnder(rec, ExpectedKey(c)).t = val.t
  /\ ValueUnder(rec, ExpectedKey(c)) = val

\* rows with an ordinary string in place of the cell at position c of row k
WithOrdinaryCell(k, c) ==
  [rows EXCEPT ![k] = [j \in 1..Len(rows[k]) |-> IF j = c THEN <<"x">> ELSE rows[k][j]]]

\* The n-th record and the field at position c of its row, a malformed cell:
\* the record holds the cell as it is, and apart from this field the table is
\* converted as it is with an ordinary string in its place.
ContainedAt(n, c) ==
  LET k   == NthKept(n)
      alt == convertRowsToObjects(WithOrdinaryCell(k, c), Options)
  IN  /\ HoldsAt(objects[n], c, Str(rows[k][c]))
      /\ Len(alt) = Len(objects)
      /\ \A m \in 1..Len(objects) : m # n => alt[m] = objects[m]
      /\ \A d \in 1..Len(rows[1]) :
           d # c => HoldsAt(objects[n], d, ConvertCell(CellAt(rows[k], d), Options))
      /\ \A d \in 1..Len(rows[1]) :
           d # c => HoldsAt(alt[n], d, ConvertCell(CellAt(rows[k], d), Options))

\* C11: with parseNestedJSON set, a field that looks like an embedded structure
\* and is no valid JSON stays the original string in its record, whatever the
\* other two options; the other fields of its row and the other rows are
\* converted as if the field were an ordinary string, and the conversion returns.
C11_FailureContained ==
  (pc = "converted" /\ parseNestedJSON = TRUE) =>
    /\ Len(objects) = Cardinality(KeptIndices)
    /\ \A n \in 1..Len(objects) :
         \A c \in 1..Len(rows[NthKept(n)]) :
           (c <= Len(rows[1]) /\ Malformed(rows[NthKept(n)][c])) => ContainedAt(n, c)

RECURSIVE SameType(_, _)
\* Trees v and r have the same shape and the same type at every place.
SameType(v, r) ==
  /\ v.t = r.t
  /\ v.t = "arr" =>
       /\ Len(r.v) = Len(v.v)
       /\ \A k \in 1..Len(v.v) : SameType(v.v[k], r.v[k])
  /\ v.t = "obj" =>
       /\ KeysOf(r) = KeysOf(v)
       /\ \A k \in 1..Len(v.v) : SameType(v.v[k].v, r.v[k].v)

\* The cell is parsed as JSON under the options of the call.
ParsedAsJSON(cell) ==
  parseNestedJSON = TRUE /\ looksLikeJSON(Str(cell)) /\ JSONparse(cell).ok

\* The value the parsing of a cell gives, unmarshalled if the option is set.
TypedValue(cell) == Unmarshalled(JSONparse(cell).v, Options)

\* C12: with doInferTypes set, a value typed by the parsing of an embedded
\* JSON text or by the unmarshalling of AttributeValues has the same type in the
\* record: a string decoded from an S tag, and a JSON string of a parsed field,
\* is still a string, whatever its text.
C12_TypedValuesKept ==
  (pc = "converted" /\ doInferTypes = TRUE) =>
    \A n \in 1..Len(objects) :
      \A c \in 1..Len(rows[1]) :
        ParsedAsJSON(CellAt(rows[NthKept(n)], c)) =>
          /\ HasKey(objects[n].v, ExpectedKey(c))
          /\ SameType(TypedValue(CellAt(rows[NthKept(n)], c)),
                      ValueUnder(objects[n], ExpectedKey(c)))

(***************************************************************************)
(* JSON.stringify(objects, null, 2) (App.jsx 283).  A character that       *)
(* CodeUnit writes \uXXXX is one element of the text here as well.         *)
(***************************************************************************)
Indent(n) == Repeat(" ", n)

QuoteChar(c) ==
  CASE c = QUOTE -> <<"\\", QUOTE>>
    [] c = "\\" -> <<"\\", "\\">>
    [] c = LF -> <<"\\", "n">>
    [] c = CR -> <<"\\", "r">>
    [] c = TAB -> <<"\\", "t">>
    [] c = CodeUnit(8) -> <<"\\", "b">>
    [] c = CodeUnit(12) -> <<"\\", "f">>
    [] OTHER -> <<c>>

QuoteString(s) ==
  <<QUOTE>> \o Join([k \in 1..Len(s) |-> QuoteChar(s[k])], <<>>) \o <<QUOTE>>

RECURSIVE Stringify(_, _)
\* The text of value v, its lines after the first indented by n spaces.
Stringify(v, n) ==
  CASE v.t = "null" -> <<"n", "u", "l", "l">>
    [] v.t = "bool" -> IF v.v THEN <<"t", "r", "u", "e">> ELSE <<"f", "a", "l", "s", "e">>
    [] v.t = "num" -> IF v.v[1] = "fin" THEN NumberToString(v.v) ELSE <<"n", "u", "l", "l">>
    [] v.t = "str" -> QuoteString(v.v)
    [] v.t = "arr" ->
         IF v.v = <<>> THEN <<"[", "]">>
         ELSE <<"[", LF>>
                \o Join([k \in 1..Len(v.v) |-> Indent(n + 2) \o Stringify(v.v[k], n + 2)],
                        <<",", LF>>)
                \o <<LF>> \o Indent(n) \o <<"]">>
    [] v.t = "obj" ->
         IF v.v = <<>> THEN <<"{", "}">>
         ELSE <<"{", LF>>
                \o Join([k \in 1..Len(v.v) |->
                           Indent(n + 2) \o QuoteString(v.v[k].k) \o <<":", " ">>
                             \o Stringify(v.v[k].v, n + 2)],
                        <<",", LF>>)
                \o <<LF>> \o Indent(n) \o <<"}">>

JSONstringify(objs) == Stringify(Arr(objs), 0)

(***************************************************************************)
(* The App component (App.jsx 258-331): its state, the handlers of the     *)
(* controls that read or write the state of a conversion, and              *)
(* handleConvert.  pc is "handleConvert" when handleConvert has just       *)
(* returned and "App" otherwise.  runTests (333-440) converts its own      *)
(* fixed cases and writes testResults and status only; it is not part of   *)
(* this model.                                                             *)
(***************************************************************************)
\* csv.slice(0, 4000)
SampleLimit == 4000

Slice(s, n) == SubSeq(s, 1, IF Len(s) < n THEN Len(s) ELSE n)

NoRowsStatus ==
  <<"N", "o", " ", "r", "o", "w", "s", " ", "d", "e", "t", "e", "c", "t",
    "e", "d", ".", " ", "M", "a", "k", "e", " ", "s", "u", "r", "e", " ",
    "t", "h", "e", "r", "e", "'", "s", " ", "a", " ", "h", "e", "a", "d",
    "e", "r", " ", "r", "o", "w", ".">>

\* delim.replace("\t", "\\t")
ShownDelimiter(d) == IF d = TAB THEN <<"\\", "t">> ELSE <<d>>

\* `Parsed ${objects.length} row(s) with delimiter "${...}".`
ParsedStatus(n, d) ==
  <<"P", "a", "r", "s", "e", "d", " ">> \o IntToDigits(n)
    \o <<" ", "r", "o", "w", "(", "s", ")", " ", "w", "i", "t", "h", " ", "d",
    "e", "l", "i", "m", "i", "t", "e", "r", " ", QUOTE>>
    \o ShownDelimiter(d) \o <<QUOTE, ".">>

CopiedStatus ==
  <<"C", "o", "p", "i", "e", "d", " ", "J", "S", "O", "N", " ", "t", "o",
    " ", "c", "l", "i", "p", "b", "o", "a", "r", "d", ".">>

CopyFailedStatus ==
  <<"C", "o", "p", "y", " ", "f", "a", "i", "l", "e", "d", ".", " ", "Y",
    "o", "u", "r", " ", "b", "r", "o", "w", "s", "e", "r", " ", "m", "a",
    "y", " ", "b", "l", "o", "c", "k", " ", "c", "l", "i", "p", "b", "o",
    "a", "r", "d", " ", "a", "c", "c", "e", "s", "s", ".">>

\* randomName(16): two of the names it can return
FileNames ==
  {<<"A", "A", "A", "A", "A", "A", "A", "A", "A", "A", "A", "A", "A", "A",
    "A", "A">>,
   <<"q", "7", "Z", "k", "0", "P", "f", "L", "2", "m", "X", "c", "9", "R",
    "d", "T">>}

\* `Downloaded ${name}.` with name = `${randomName(16)}.json`
DownloadedStatus(name) ==
  <<"D", "o", "w", "n", "l", "o", "a", "d", "e", "d", " ">> \o name
    \o <<".", "j", "s", "o", "n", ".">>

\* The texts the user puts in the input area.
CsvChoices ==
  {<<>>,
   <<"x">>,
   <<"a", ";", "b", LF, "1", ";", "2", LF>>,
   <<"a", ",", "b", LF, "1", ",", "2">>,
   <<"a", TAB, "b", LF, QUOTE, "{", QUOTE, QUOTE, "S", QUOTE, QUOTE, ":",
    QUOTE, QUOTE, "1", "2", QUOTE, QUOTE, "}", QUOTE, TAB, "t", "r", "u",
    "e">>}

Init ==
  /\ pc = "App"
  /\ csv = <<>>
  /\ json = <<"[", "]">>
  /\ status = <<>>
  /\ delimiter = ","
  /\ autoDelim = TRUE
  /\ parseNestedJSON = TRUE
  /\ doUnmarshall = TRUE
  /\ doInferTypes = TRUE
  /\ userDelimiter = ","
  /\ sample = Unused /\ best = Unused /\ rows = Unused /\ objects = Unused
  /\ text = Unused /\ i = Unused /\ field = Unused /\ row = Unused /\ inQuotes = Unused
  /\ table = Unused /\ tableDelim = Unused /\ quoteAll = Unused
  /\ ValueUnused

\* What no handler of App writes.
appFrame == <<text, i, field, row, inQuotes, table, tableDelim, quoteAll, valueVars>>

\* What a handler that sets one piece of state leaves alone, but for that piece.
callVars == <<sample, best, rows, objects>>

\* onChange of the input area (483), and the load of a chosen or dropped file (295, 304)
SetCsv ==
  /\ \E t \in CsvChoices : csv' = t
  /\ pc' = "App"
  /\ UNCHANGED <<delimiter, autoDelim, parseNestedJSON, doUnmarshall, doInferTypes,
                 json, status, userDelimiter, callVars, appFrame>>

\* onChange of the auto-detect check box (461)
SetAutoDelim ==
  /\ \E b \in BOOLEAN : autoDelim' = b
  /\ pc' = "App"
  /\ UNCHANGED <<csv, delimiter, parseNestedJSON, doUnmarshall, doInferTypes,
                 json, status, userDelimiter, callVars, appFrame>>

\* onChange of the delimiter select (469), which is shown with auto-detect off (465)
SetDelimiter ==
  /\ autoDelim = FALSE
  /\ \E d \in Range(CANDIDATES) : delimiter' = d /\ userDelimiter' = d
  /\ pc' = "App"
  /\ UNCHANGED <<csv, autoDelim, parseNestedJSON, doUnmarshall, doInferTypes,
                 json, status, callVars, appFrame>>

\* onChange of the three option check boxes (508, 517, 526)
SetParseNestedJSON ==
  /\ \E b \in BOOLEAN : parseNestedJSON' = b
  /\ pc' = "App"
  /\ UNCHANGED <<csv, delimiter, autoDelim, doUnmarshall, doInferTypes,
                 json, status, userDelimiter, callVars, appFrame>>

SetDoUnmarshall ==
  /\ \E b \in BOOLEAN : doUnmarshall' = b
  /\ pc' = "App"
  /\ UNCHANGED <<csv, delimiter, autoDelim, parseNestedJSON, doInferTypes,
                 json, status, userDelimiter, callVars, appFrame>>

SetDoInferTypes ==
  /\ \E b \in BOOLEAN : doInferTypes' = b
  /\ pc' = "App"
  /\ UNCHANGED <<csv, delimiter, autoDelim, parseNestedJSON, doUnmarshall,
                 json, status, userDelimiter, callVars, appFrame>>

\* handleConvert (270-289) without the setDelimiter(delim) of line 275
HandleConvertKeepDelimiter ==
  /\ sample' = Slice(csv, SampleLimit)
  /\ best' = IF autoDelim THEN detectDelimiterByStructure(sample') ELSE delimiter
  /\ delimiter' = delimiter
  /\ rows' = parseCSV(csv, best')
  /\ objects' = IF rows' = <<>> THEN <<>> ELSE convertRowsToObjects(rows', Options)
  /\ json' = IF rows' = <<>> THEN <<"[", "]">> ELSE JSONstringify(objects')
  /\ status' = IF rows' = <<>> THEN NoRowsStatus ELSE ParsedStatus(Len(objects'), best')
  /\ pc' = "handleConvert"
  /\ UNCHANGED <<csv, autoDelim, parseNestedJSON, doUnmarshall, doInferTypes,
                 userDelimiter, appFrame>>

\* handleConvert (270-289); best is the local delim.  No call of the try block
\* throws on a string and rows of strings, so the catch of 285-288 is not taken.
HandleConvert ==
  /\ sample' = Slice(csv, SampleLimit)
  /\ best' = IF autoDelim THEN detectDelimiterByStructure(sample') ELSE delimiter
  /\ delimiter' = best'
  /\ rows' = parseCSV(csv, best')
  /\ objects' = IF rows' = <<>> THEN <<>> ELSE convertRowsToObjects(rows', Options)
  /\ json' = IF rows' = <<>> THEN <<"[", "]">> ELSE JSONstringify(objects')
  /\ status' = IF rows' = <<>> THEN NoRowsStatus ELSE ParsedStatus(Len(objects'), best')
  /\ pc' = "handleConvert"
  /\ UNCHANGED <<csv, autoDelim, parseNestedJSON, doUnmarshall, doInferTypes,
                 userDelimiter, appFrame>>

\* handleCopy (328-331): copyText(json) succeeds or fails
HandleCopy ==
  /\ status' \in {CopiedStatus, CopyFailedStatus}
  /\ pc' = "App"
  /\ UNCHANGED <<csv, delimiter, autoDelim, parseNestedJSON, doUnmarshall, doInferTypes,
                 json, userDelimiter, callVars, appFrame>>

\* handleDownload (308-326), the download succeeding
HandleDownload ==
  /\ \E name \in FileNames : status' = DownloadedStatus(name)
  /\ pc' = "App"
  /\ UNCHANGED <<csv, delimiter, autoDelim, parseNestedJSON, doUnmarshall, doInferTypes,
                 json, userDelimiter, callVars, appFrame>>

Next ==
  \/ SetCsv
  \/ SetAutoDelim
  \/ SetDelimiter
  \/ SetParseNestedJSON
  \/ SetDoUnmarshall
  \/ SetDoInferTypes
  \/ HandleConvert
  \/ HandleCopy
  \/ HandleDownload

Spec == Init /\ [][Next]_vars

(***************************************************************************)
(* C13.  Conversion requests are independent: whatever conversions and     *)
(* option changes came before, a call of handleConvert parses its text     *)
(* with the delimiter the user asked for (the one found in the text with   *)
(* auto-detect on, the one the user chose in the select with auto-detect   *)
(* off) and returns the records that the text, that delimiter and the      *)
(* three options determine; nothing an earlier call wrote changes either.  *)
(* userDelimiter is the user's last choice in the select, "," before any.  *)
(***************************************************************************)
RequestedDelimiter ==
  IF autoDelim THEN detectDelimiterByStructure(Slice(csv, SampleLimit)) ELSE userDelimiter

RecordsFor(rs) == IF rs = <<>> THEN <<>> ELSE convertRowsToObjects(rs, Options)

ResultFor(rs) == IF rs = <<>> THEN <<"[", "]">> ELSE JSONstringify(RecordsFor(rs))

C13_IndependentRequests ==
  pc = "handleConvert" =>
    /\ best = RequestedDelimiter
    /\ rows = parseCSV(csv, RequestedDelimiter)
    /\ Len(objects) = Len(RecordsFor(parseCSV(csv, RequestedDelimiter)))
    /\ json = ResultFor(parseCSV(csv, RequestedDelimiter))

=============================================================================
